---- MODULE Spec2Model ----
(***************************************************************************)
(* Model of src/bot.py: the profile-onboarding state machine, the          *)
(* matchmaking / session lifecycle handlers and the message relay of an    *)
(* anonymous chat bot (aiogram 2 handlers over a PostgreSQL store).        *)
(*                                                                         *)
(* Handlers that make several store calls (cmd_find, cmd_stop,             *)
(* handle_session_messages) are split at their awaits, so that handlers of *)
(* different users interleave as coroutines do.  At most one handler per   *)
(* user is in flight.  Handlers with one store write are single steps.     *)
(*                                                                         *)
(* Specifications:                                                         *)
(*   Spec         every handler, from the empty store, interleaved         *)
(*   ProfileSpec  the onboarding handlers alone                            *)
(*   SerialSpec   /start, /find, /stop, /ban, /unban of onboarded users,   *)
(*                one update at a time                                     *)
(*   AdminSpec    the same with /vip, /stats and commands from non-admins  *)
(*   FaultSpec    SerialSpec with store and transport calls that raise     *)
(*   RaceSpec     /start, /find, /stop and the relay of onboarded users,   *)
(*                interleaved                                              *)
(***************************************************************************)
EXTENDS Integers, Sequences, FiniteSets, TLC

\* ------------------------------------------------------------------ bounds
NumUsers == 3
MaxRegistered == 2
MaxSessionId == 2

\* ------------------------------------------------------- program constants
ADMIN_ID == 1000
TARGET_GROUP_ID == 2000

Users == 1..NumUsers
\* Spec and ProfileSpec bound how many of the users ever contact the bot
Registered == 1..MaxRegistered

\* SQL NULL / Python None is the empty tuple, a present value x is <<x>>.
NULL == <<>>
Some(x) == <<x>>
IsSet(f) == f # NULL

\* ------------------------------------------------------------------ state
VARIABLES
    users,            \* table users: id -> NULL | <<row>>
    sessions,         \* table sessions: set of rows
    next_session_id,  \* the SERIAL sequence of sessions.session_id
    fsm_state,        \* MemoryStorage: the FSM state (cursor) of each user
    fsm_data,         \* MemoryStorage: data["partner_id"] of each user
    pc,               \* where the handler in flight for each user is suspended
    local,            \* the local variables of that handler
    sent              \* transport calls made by the user's latest handler

vars == <<users, sessions, next_session_id, fsm_state, fsm_data, pc, local, sent>>

\* class UserState, plus "none" for a user whose FSM state is None
UserState == {"language", "gender", "continent", "age", "profile_complete", "in_session"}

\* ------------------------------------------------------------- the store
NewRow == [language |-> NULL, gender |-> NULL, continent |-> NULL, age |-> NULL,
           is_vip |-> FALSE, vip_expiry |-> NULL, is_banned |-> FALSE]

get_user(tbl, user_id) == tbl[user_id]

\* INSERT ... ON CONFLICT (id) DO UPDATE: the row is written again
create_user_upsert(tbl, user_id) == [tbl EXCEPT ![user_id] = Some(NewRow)]

\* INSERT ... ON CONFLICT (id) DO NOTHING
create_user(tbl, user_id) ==
    IF tbl[user_id] = NULL THEN [tbl EXCEPT ![user_id] = Some(NewRow)] ELSE tbl

\* CHECK constraints and column widths of CREATE TABLE users
LanguageCodes == {"en", "ar", "hi", "id"}
GenderCodes == {"Male", "Female", "Anonymous"}
language_ok(v) == v \in LanguageCodes
gender_ok(v) == v \in GenderCodes
continent_ok(v) == Len(v) <= 2

\* Python truthiness of the keyword arguments of update_user_profile
TruthyStr(v) == v # ""
TruthyInt(n) == n # 0

SetField(tbl, user_id, f, v) ==
    IF tbl[user_id] = NULL THEN tbl
    ELSE [tbl EXCEPT ![user_id] = Some([tbl[user_id][1] EXCEPT ![f] = Some(v)])]

\* update_user_profile(user_id, <field>=v): the UPDATE runs only for a truthy v
update_user_profile(tbl, user_id, f, v, truthy) ==
    IF truthy THEN SetField(tbl, user_id, f, v) ELSE tbl

ban_user(tbl, user_id) ==
    IF tbl[user_id] = NULL THEN tbl
    ELSE [tbl EXCEPT ![user_id] = Some([tbl[user_id][1] EXCEPT !.is_banned = TRUE])]

\* expiry_date = datetime.now() + timedelta(days=months*30), in days from now
set_vip_status(tbl, user_id, months) ==
    IF tbl[user_id] = NULL THEN tbl
    ELSE [tbl EXCEPT ![user_id] =
             Some([tbl[user_id][1] EXCEPT !.is_vip = TRUE, !.vip_expiry = Some(months * 30)])]

unban_user(tbl, user_id) ==
    IF tbl[user_id] = NULL THEN tbl
    ELSE [tbl EXCEPT ![user_id] = Some([tbl[user_id][1] EXCEPT !.is_banned = FALSE])]

\* SELECT * FROM users, without the WHERE clause
get_all_users(tbl) == {u \in Users : tbl[u] # NULL}

\* SELECT * FROM users WHERE is_banned = FALSE (the ids of the rows)
get_active_users(tbl) == {u \in Users : tbl[u] # NULL /\ ~tbl[u][1].is_banned}

\* the rows matched by WHERE user1_id = $1 OR user2_id = $1
SessionsOf(ss, user_id) == {s \in ss : s.user1_id = user_id \/ s.user2_id = user_id}

\* user["language"] and user["gender"] and user["continent"] and user["age"]
ProfileComplete(row) ==
    /\ row # NULL
    /\ IsSet(row[1].language) /\ IsSet(row[1].gender)
    /\ IsSet(row[1].continent) /\ IsSet(row[1].age)

\* -------------------------------------------------------------- transport
Msg(to, via, text) == [to |-> to, via |-> via, text |-> text, user |-> 0, partner |-> 0]
ModMsg(user_id, partner_id, text) ==
    [to |-> TARGET_GROUP_ID, via |-> "send_message", text |-> text,
     user |-> user_id, partner |-> partner_id]

\* the locals of a suspended handler; cleared when the handler returns
NoMsg == [cmd |-> "", kind |-> "none", text |-> ""]
NoLocal == [partner |-> 0, session |-> NULL, todo |-> {}, partners |-> {}, msg |-> NoMsg]

Idle(u) == pc[u] = "idle"

\* The transport log is an observation window: it shows what the handlers in
\* flight have sent so far and what the handler that returned last had sent.
\* Dispatching an update to u starts u's log and drops the logs of the
\* handlers that have returned.
Dispatch(u, msgs) ==
    [v \in Users |-> IF v = u THEN msgs ELSE IF Idle(v) THEN <<>> ELSE sent[v]]
\* a later step of the handler of u sends msgs
Send(u, msgs) == [sent EXCEPT ![u] = sent[u] \o msgs]

Init ==
    /\ users = [u \in Users |-> NULL]
    /\ sessions = {}
    /\ next_session_id = 1
    /\ fsm_state = [u \in Users |-> "none"]
    /\ fsm_data = [u \in Users |-> 0]
    /\ pc = [u \in Users |-> "idle"]
    /\ local = [u \in Users |-> NoLocal]
    /\ sent = [u \in Users |-> <<>>]

\* ------------------------------------------------------------- onboarding
\* /start, any state
cmd_start(u) ==
    /\ Idle(u)
    /\ LET tbl == create_user(users, u)
           user == get_user(tbl, u)
       IN /\ users' = tbl
          /\ IF user[1].is_banned
             THEN /\ sent' = Dispatch(u, <<Msg(u, "answer", "banned")>>)
                  /\ UNCHANGED fsm_state
             ELSE IF ProfileComplete(user)
             THEN /\ sent' = Dispatch(u, <<Msg(u, "answer", "welcome_back")>>)
                  /\ fsm_state' = [fsm_state EXCEPT ![u] = "profile_complete"]
             ELSE /\ sent' = Dispatch(u, <<Msg(u, "answer", "choose_language")>>)
                  /\ fsm_state' = [fsm_state EXCEPT ![u] = "language"]
    /\ UNCHANGED <<sessions, next_session_id, fsm_data, pc, local>>

\* callback data as its "_"-separated pieces: "lang_en" is <<"lang", "en">>
CallbackData ==
    { <<"lang", "en">>, <<"lang", "">>, <<"lang", "xx">>,
      <<"gender", "Male">>, <<"gender", "Other">>,
      <<"continent", "AS">>, <<"continent", "Asia">> }

\* c.data.startswith(prefix + "_")
StartsWith(data, prefix) == Len(data) >= 2 /\ data[1] = prefix
\* c.data.split("_")[1]
SplitField(data) == data[2]

\* the three callback handlers share their shape: persist, prompt, advance.
\* A value the table rejects raises in the UPDATE and the handler stops there.
ProcessChoice(u, v, f, ok, prompt, next) ==
    /\ Idle(u)
    /\ IF TruthyStr(v) /\ ~ok
       THEN /\ sent' = Dispatch(u, <<>>)
            /\ UNCHANGED <<users, fsm_state>>
       ELSE /\ users' = update_user_profile(users, u, f, v, TruthyStr(v))
            /\ sent' = Dispatch(u, <<Msg(u, "edit_text", prompt)>>)
            /\ fsm_state' = [fsm_state EXCEPT ![u] = next]
    /\ UNCHANGED <<sessions, next_session_id, fsm_data, pc, local>>

process_language(u, data) ==
    /\ fsm_state[u] = "language" /\ StartsWith(data, "lang")
    /\ ProcessChoice(u, SplitField(data), "language", language_ok(SplitField(data)),
                     "choose_gender", "gender")

process_gender(u, data) ==
    /\ fsm_state[u] = "gender" /\ StartsWith(data, "gender")
    /\ ProcessChoice(u, SplitField(data), "gender", gender_ok(SplitField(data)),
                     "choose_continent", "continent")

process_continent(u, data) ==
    /\ fsm_state[u] = "continent" /\ StartsWith(data, "continent")
    /\ ProcessChoice(u, SplitField(data), "continent", continent_ok(SplitField(data)),
                     "enter_age", "age")

\* message.text as its characters; int(message.text) raises ValueError on
\* anything but an optional sign followed by at least one digit
Digits == <<"0", "1", "2", "3", "4", "5", "6", "7", "8", "9">>
DigitChars == {Digits[i] : i \in 1..10}
DigitValues == [c \in DigitChars |-> (CHOOSE i \in 1..10 : Digits[i] = c) - 1]
IsDigit(c) == c \in DigitChars
DigitValue(c) == DigitValues[c]

RECURSIVE ParseDigits(_, _)
ParseDigits(cs, acc) ==
    IF cs = <<>> THEN acc
    ELSE ParseDigits(Tail(cs), acc * 10 + DigitValue(Head(cs)))

AllDigits(cs) == cs # <<>> /\ \A i \in 1..Len(cs) : IsDigit(cs[i])

\* int(text): NULL stands for ValueError
ParseInt(text) ==
    IF AllDigits(text) THEN Some(ParseDigits(text, 0))
    ELSE IF text # <<>> /\ text[1] = "-" /\ AllDigits(Tail(text))
         THEN Some(0 - ParseDigits(Tail(text), 0))
    ELSE IF text # <<>> /\ text[1] = "+" /\ AllDigits(Tail(text))
         THEN Some(ParseDigits(Tail(text), 0))
    ELSE NULL

AgeTexts ==
    { <<"1">>, <<"9", "9">>, <<"0">>, <<"1", "0", "0">>, <<"-", "5">>,
      <<"a", "b">>, <<>>, <<"2", "x">> }

\* a range check that lets both neighbours of the range through
AgeInRangeInclusive(age) == 0 <= age /\ age <= 100

\* 0 < age < 100
AgeInRange(age) == 0 < age /\ age < 100

\* any text message in state age (only /start is taken by an earlier handler)
process_age(u, text) ==
    /\ Idle(u)
    /\ fsm_state[u] = "age"
    /\ LET parsed == ParseInt(text) IN
       IF parsed = NULL
       THEN /\ sent' = Dispatch(u, <<Msg(u, "answer", "invalid_age")>>)
            /\ UNCHANGED <<users, fsm_state>>
       ELSE IF ~AgeInRange(parsed[1])
       THEN /\ sent' = Dispatch(u, <<Msg(u, "answer", "age_out_of_range")>>)
            /\ UNCHANGED <<users, fsm_state>>
       ELSE /\ users' = update_user_profile(users, u, "age", parsed[1], TruthyInt(parsed[1]))
            /\ sent' = Dispatch(u, <<Msg(u, "answer", "profile_complete")>>)
            /\ fsm_state' = [fsm_state EXCEPT ![u] = "profile_complete"]
    /\ UNCHANGED <<sessions, next_session_id, fsm_data, pc, local>>

\* ------------------------------------------------------------ matchmaking
\* INSERT INTO sessions (user1_id, user2_id) ... RETURNING session_id
create_session(ss, id, user1_id, user2_id) ==
    ss \cup {[session_id |-> id, user1_id |-> user1_id, user2_id |-> user2_id]}

\* DELETE FROM sessions WHERE session_id = $1
delete_session(ss, id) == {s \in ss : s.session_id # id}

\* session["user1_id"] if session["user2_id"] == user_id else session["user2_id"]
PartnerOf(s, user_id) == IF s.user2_id = user_id THEN s.user1_id ELSE s.user2_id

\* the rows of active_users the comprehension awaits get_session for
Candidates(active, user_id) == {v \in active : v # user_id}

FoundMsg(to, who) ==
    [to |-> to, via |-> "send_message", text |-> "found_partner", user |-> 0, partner |-> who]

\* finds that have been dispatched and may still INSERT a session
FindsInFlight == {v \in Users : pc[v] \in {"find_get_session", "find_get_active", "find_filter"}}

Return(u) == [local EXCEPT ![u] = NoLocal]

\* /find in state profile_complete: get_user and the profile check
cmd_find(u) ==
    /\ Idle(u)
    /\ fsm_state[u] = "profile_complete"
    /\ next_session_id + Cardinality(FindsInFlight) <= MaxSessionId
    /\ IF ~ProfileComplete(get_user(users, u))
       THEN /\ sent' = Dispatch(u, <<Msg(u, "answer", "complete_profile_first")>>)
            /\ UNCHANGED pc
       ELSE /\ sent' = Dispatch(u, <<>>)
            /\ pc' = [pc EXCEPT ![u] = "find_get_session"]
    /\ UNCHANGED <<users, sessions, next_session_id, fsm_state, fsm_data, local>>

\* if await get_session(user_id): ... return
find_get_session(u) ==
    /\ pc[u] = "find_get_session"
    /\ IF SessionsOf(sessions, u) # {}
       THEN /\ sent' = Send(u, <<Msg(u, "answer", "already_in_session")>>)
            /\ pc' = [pc EXCEPT ![u] = "idle"]
       ELSE /\ sent' = Send(u, <<Msg(u, "answer", "searching")>>)
            /\ pc' = [pc EXCEPT ![u] = "find_get_active"]
    /\ UNCHANGED <<users, sessions, next_session_id, fsm_state, fsm_data, local>>

\* active_users = await get_active_users()
find_get_active(u) ==
    /\ pc[u] = "find_get_active"
    /\ local' = [local EXCEPT ![u].todo = Candidates(get_active_users(users), u)]
    /\ pc' = [pc EXCEPT ![u] = "find_filter"]
    /\ UNCHANGED <<users, sessions, next_session_id, fsm_state, fsm_data, sent>>

\* one turn of the comprehension: not await get_session(u["id"])
find_filter(u) ==
    /\ pc[u] = "find_filter"
    /\ \E v \in local[u].todo :
        local' = [local EXCEPT ![u].todo = @ \ {v},
                               ![u].partners =
                                   IF SessionsOf(sessions, v) = {} THEN @ \cup {v} ELSE @]
    /\ UNCHANGED <<users, sessions, next_session_id, fsm_state, fsm_data, pc, sent>>

\* random.choice(potential_partners) and create_session, or "No partners"
find_choose(u) ==
    /\ pc[u] = "find_filter"
    /\ local[u].todo = {}
    /\ IF local[u].partners # {}
       THEN \E partner \in local[u].partners :
              /\ sessions' = create_session(sessions, next_session_id, u, partner)
              /\ next_session_id' = next_session_id + 1
              /\ local' = [local EXCEPT ![u].partner = partner, ![u].partners = {}]
              /\ pc' = [pc EXCEPT ![u] = "find_notify"]
              /\ UNCHANGED sent
       ELSE /\ sent' = Send(u, <<Msg(u, "answer", "no_partners")>>)
            /\ pc' = [pc EXCEPT ![u] = "idle"]
            /\ local' = Return(u)
            /\ UNCHANGED <<sessions, next_session_id>>
    /\ UNCHANGED <<users, fsm_state, fsm_data>>

\* the two notifications, UserState.in_session.set(), data["partner_id"]
find_notify(u) ==
    /\ pc[u] = "find_notify"
    /\ LET partner == local[u].partner IN
       /\ sent' = Send(u, <<FoundMsg(u, partner), FoundMsg(partner, u)>>)
       /\ fsm_state' = [fsm_state EXCEPT ![u] = "in_session"]
       /\ fsm_data' = [fsm_data EXCEPT ![u] = partner]
    /\ pc' = [pc EXCEPT ![u] = "idle"]
    /\ local' = Return(u)
    /\ UNCHANGED <<users, sessions, next_session_id>>

\* ------------------------------------------------------- session lifecycle
\* FSMContext.finish(): the state becomes None, the data is dropped
finish(st, u) == [st EXCEPT ![u] = "none"]

\* /stop in state in_session: the SELECT of end_session
cmd_stop(u) ==
    /\ Idle(u)
    /\ fsm_state[u] = "in_session"
    /\ IF SessionsOf(sessions, u) = {}
       THEN /\ sent' = Dispatch(u, <<Msg(u, "answer", "not_in_session")>>)
            /\ UNCHANGED <<pc, local>>
       ELSE \E s \in SessionsOf(sessions, u) :
              /\ local' = [local EXCEPT ![u].session = Some(s)]
              /\ pc' = [pc EXCEPT ![u] = "stop_delete"]
              /\ sent' = Dispatch(u, <<>>)
    /\ UNCHANGED <<users, sessions, next_session_id, fsm_state, fsm_data>>

\* the DELETE of end_session
stop_delete(u) ==
    /\ pc[u] = "stop_delete"
    /\ sessions' = delete_session(sessions, local[u].session[1].session_id)
    /\ pc' = [pc EXCEPT ![u] = "stop_notify"]
    /\ UNCHANGED <<users, next_session_id, fsm_state, fsm_data, local, sent>>

\* the two notices, UserState.profile_complete.set(), state.finish()
stop_notify(u) ==
    /\ pc[u] = "stop_notify"
    /\ LET partner_id == PartnerOf(local[u].session[1], u) IN
       sent' = Send(u, <<Msg(u, "send_message", "session_ended"),
                         Msg(partner_id, "send_message", "partner_ended")>>)
    /\ fsm_state' = finish([fsm_state EXCEPT ![u] = "profile_complete"], u)
    /\ fsm_data' = [fsm_data EXCEPT ![u] = 0]
    /\ pc' = [pc EXCEPT ![u] = "idle"]
    /\ local' = Return(u)
    /\ UNCHANGED <<users, sessions, next_session_id>>

\* ------------------------------------------------------------------ relay
\* inbound messages other than /start and the admin commands
TextHi == [cmd |-> "", kind |-> "text", text |-> "hi"]
SlashFind == [cmd |-> "find", kind |-> "text", text |-> "/find"]
SlashStop == [cmd |-> "stop", kind |-> "text", text |-> "/stop"]
\* a message without text: kind is its content type (message.content_type)
Media(kind) == [cmd |-> "", kind |-> kind, text |-> ""]
Photo == Media("photo")
Dice == Media("dice")
\* the attributes the if/elif chain of handle_session_messages tests, in its order
Chain == <<"text", "photo", "video", "document", "voice", "audio", "sticker",
           "animation", "video_note", "contact", "location", "poll", "venue">>
ContentTypes == {Chain[i] : i \in 1..Len(Chain)}
Messages == {TextHi, SlashFind, SlashStop} \cup {Media(k) : k \in (ContentTypes \ {"text"}) \cup {"dice"}}

\* the attributes of the Message object that are set (truthy) for a message
\* of a content type. Telegram sets document on an animation and location on
\* a venue as well, for backward compatibility.
Fields(kind) ==
    CASE kind = "animation" -> {"animation", "document"}
      [] kind = "venue" -> {"venue", "location"}
      [] OTHER -> {kind}

\* the bot method each branch of the chain calls
SendMethod ==
    [text |-> "send_message", photo |-> "send_photo", video |-> "send_video",
     document |-> "send_document", voice |-> "send_voice", audio |-> "send_audio",
     sticker |-> "send_sticker", animation |-> "send_animation",
     video_note |-> "send_video_note", contact |-> "send_contact",
     location |-> "send_location", poll |-> "send_poll", venue |-> "send_venue"]

\* the branches whose condition holds, still to be reached from branch i on
BranchesFrom(kind, i) == {j \in i..Len(Chain) : Chain[j] \in Fields(kind)}

\* the transport primitive the if/elif chain calls for a message: that of
\* the first branch whose attribute is set, none if no branch matches
Primitive(kind) ==
    LET hits == BranchesFrom(kind, 1) IN
    IF hits = {} THEN "none"
    ELSE SendMethod[Chain[CHOOSE j \in hits : \A k \in hits : j <= k]]

\* any content in state in_session that cmd_stop did not take: get_session
handle_session_messages(u, m) ==
    /\ Idle(u)
    /\ fsm_state[u] = "in_session"
    /\ m.cmd # "stop"
    /\ IF SessionsOf(sessions, u) = {}
       THEN /\ sent' = Dispatch(u, <<Msg(u, "answer", "no_active_session")>>)
            /\ UNCHANGED <<pc, local>>
       ELSE \E s \in SessionsOf(sessions, u) :
              /\ local' = [local EXCEPT ![u].session = Some(s), ![u].msg = m]
              /\ pc' = [pc EXCEPT ![u] = "relay_forward"]
              /\ sent' = Dispatch(u, <<>>)
    /\ UNCHANGED <<users, sessions, next_session_id, fsm_state, fsm_data>>

\* get_user(partner_id), the forward to the partner, the mirror to the group
relay_forward(u) ==
    /\ pc[u] = "relay_forward"
    /\ LET partner_id == PartnerOf(local[u].session[1], u)
           m == local[u].msg
           toPartner == IF Primitive(m.kind) = "none" THEN <<>>
                        ELSE <<Msg(partner_id, Primitive(m.kind), m.text)>>
           toGroup == IF m.kind = "text"
                      THEN <<ModMsg(u, partner_id, m.text)>>
                      ELSE <<Msg(TARGET_GROUP_ID, "forward_message", m.text)>>
       IN sent' = Send(u, toPartner \o toGroup)
    /\ pc' = [pc EXCEPT ![u] = "idle"]
    /\ local' = Return(u)
    /\ UNCHANGED <<users, sessions, next_session_id, fsm_state, fsm_data>>

\* the catch-all: no earlier handler matched the message in this state
handle_all_messages(u, m) ==
    /\ Idle(u)
    /\ fsm_state[u] # "in_session"
    /\ ~(fsm_state[u] = "age" /\ m.kind = "text")
    /\ ~(fsm_state[u] = "profile_complete" /\ m.cmd = "find")
    /\ sent' = Dispatch(u, <<Msg(u, "answer", "dont_understand")>>)
    /\ UNCHANGED <<users, sessions, next_session_id, fsm_state, fsm_data, pc, local>>

\* ------------------------------------------------------------------ admin
\* /ban, /unban, /vip and /stats are registered for state="*" after
\* process_age (state=UserState.age), which takes every text of a user whose
\* cursor is age; the issuer is a user of the bot or the admin identity.
Reaches(issuer) == issuer \in Users => (Idle(issuer) /\ fsm_state[issuer] # "age")

\* a check that lets every issuer through
AuthorizedAnyone(issuer) == TRUE

\* message.from_user.id != ADMIN_ID, negated
Authorized(issuer) == issuer = ADMIN_ID

\* answer "You are not authorized to use this command." and return
Refuse(issuer) ==
    /\ sent' = Dispatch(issuer, <<Msg(issuer, "answer", "not_authorized")>>)
    /\ UNCHANGED users

\* /ban <user_id>
cmd_ban(issuer, target) ==
    /\ Reaches(issuer)
    /\ IF ~Authorized(issuer) THEN Refuse(issuer)
       ELSE users' = ban_user(users, target) /\ UNCHANGED sent
    /\ UNCHANGED <<sessions, next_session_id, fsm_state, fsm_data, pc, local>>

\* /unban <user_id>
cmd_unban(issuer, target) ==
    /\ Reaches(issuer)
    /\ IF ~Authorized(issuer) THEN Refuse(issuer)
       ELSE users' = unban_user(users, target) /\ UNCHANGED sent
    /\ UNCHANGED <<sessions, next_session_id, fsm_state, fsm_data, pc, local>>

\* /vip <user_id> <months>
Months == {1}
cmd_vip(issuer, target, months) ==
    /\ Reaches(issuer)
    /\ IF ~Authorized(issuer) THEN Refuse(issuer)
       ELSE users' = set_vip_status(users, target, months) /\ UNCHANGED sent
    /\ UNCHANGED <<sessions, next_session_id, fsm_state, fsm_data, pc, local>>

\* /stats: get_active_users() and a reply to the admin
cmd_stats(issuer) ==
    /\ Reaches(issuer)
    /\ IF ~Authorized(issuer) THEN Refuse(issuer)
       ELSE UNCHANGED <<users, sent>>
    /\ UNCHANGED <<sessions, next_session_id, fsm_state, fsm_data, pc, local>>

\* Every handler of the users who contact the bot, and the admin's /ban and
\* /unban.  (/vip, /stats and the refusals are in AdminSpec: is_vip changes
\* nothing a handler does, the VIP branch of cmd_find is "pass".)
Next ==
    \/ \E u \in Registered :
        \/ cmd_start(u)
        \/ \E data \in CallbackData :
            \/ process_language(u, data)
            \/ process_gender(u, data)
            \/ process_continent(u, data)
        \/ \E text \in AgeTexts : process_age(u, text)
        \/ cmd_find(u)
        \/ find_get_session(u)
        \/ find_get_active(u)
        \/ find_filter(u)
        \/ find_choose(u)
        \/ find_notify(u)
        \/ cmd_stop(u)
        \/ stop_delete(u)
        \/ stop_notify(u)
        \/ \E m \in Messages :
            \/ handle_session_messages(u, m)
            \/ handle_all_messages(u, m)
        \/ relay_forward(u)
    \/ \E target \in Registered :
        \/ cmd_ban(ADMIN_ID, target)
        \/ cmd_unban(ADMIN_ID, target)

Spec == Init /\ [][Next]_vars

\* the profile state machine alone: the onboarding handlers of every user
NextProfile ==
    \E u \in Registered :
        \/ cmd_start(u)
        \/ \E data \in CallbackData :
            \/ process_language(u, data)
            \/ process_gender(u, data)
            \/ process_continent(u, data)
        \/ \E text \in AgeTexts : process_age(u, text)

ProfileSpec == Init /\ [][NextProfile]_vars

\* ---------------------------------------------- after onboarding
\* the row of a user who went through onboarding with the offered buttons
\* and a valid age
OnboardedRow ==
    Some([NewRow EXCEPT !.language = Some("en"), !.gender = Some("Male"),
                        !.continent = Some("AS"), !.age = Some(1)])

\* the users in `on` have completed onboarding, the others never wrote
Onboarded(on) ==
    /\ users = [u \in Users |-> IF u \in on THEN OnboardedRow ELSE NULL]
    /\ sessions = {}
    /\ next_session_id = 1
    /\ fsm_state = [u \in Users |-> IF u \in on THEN "profile_complete" ELSE "none"]
    /\ fsm_data = [u \in Users |-> 0]
    /\ pc = [u \in Users |-> "idle"]
    /\ local = [u \in Users |-> NoLocal]
    /\ sent = [u \in Users |-> <<>>]

\* no handler is in flight: the state between two updates
Quiet == \A v \in Users : Idle(v)

\* an update reaches the dispatcher and its handler runs to its first await
Begin(u) ==
    \/ cmd_start(u)
    \/ cmd_find(u)
    \/ cmd_stop(u)

\* a suspended handler runs on to its next await or to its return
Resume(u) ==
    \/ find_get_session(u)
    \/ find_get_active(u)
    \/ find_filter(u)
    \/ find_choose(u)
    \/ find_notify(u)
    \/ stop_delete(u)
    \/ stop_notify(u)

\* a text message of a user in a session is relayed
Relay(u) == handle_session_messages(u, TextHi) \/ relay_forward(u)

\* The handlers of every user and the admin's /ban and /unban, one update
\* at a time: an update is dispatched only when the handler of the previous
\* update has returned.
NextSerial ==
    \/ \E u \in Users :
        \/ Quiet /\ cmd_start(u)
        \/ Quiet /\ cmd_find(u)
        \/ Quiet /\ cmd_stop(u)
        \/ Resume(u)
    \/ \E target \in Users :
        \/ Quiet /\ cmd_ban(ADMIN_ID, target)
        \/ Quiet /\ cmd_unban(ADMIN_ID, target)

SerialSpec == Onboarded(Users) /\ [][NextSerial]_vars

\* The same for the users who contact the bot, with all four admin commands
\* issued by the admin and by those users.
NextAdmin ==
    \/ \E u \in Registered :
        \/ Quiet /\ cmd_start(u)
        \/ Quiet /\ cmd_find(u)
        \/ Quiet /\ cmd_stop(u)
        \/ Resume(u)
    \/ \E issuer \in Registered \cup {ADMIN_ID} :
        \/ \E target \in Registered :
            \/ Quiet /\ cmd_ban(issuer, target)
            \/ Quiet /\ cmd_unban(issuer, target)
            \/ \E months \in Months : Quiet /\ cmd_vip(issuer, target, months)
        \/ Quiet /\ cmd_stats(issuer)

AdminSpec == Onboarded(Registered) /\ [][NextAdmin]_vars

\* An awaited store or transport call of the suspended handler raises; no
\* handler catches it, so the rest of the handler does not run.
fails(u) ==
    /\ ~Idle(u)
    /\ pc' = [pc EXCEPT ![u] = "idle"]
    /\ local' = Return(u)
    /\ UNCHANGED <<users, sessions, next_session_id, fsm_state, fsm_data, sent>>

NextFault == NextSerial \/ \E u \in Users : fails(u)
FaultSpec == Onboarded(Users) /\ [][NextFault]_vars

\* The handlers of the users interleaving at their awaits, every user
\* having completed onboarding.
NextRace == \E u \in Users : Begin(u) \/ Resume(u) \/ Relay(u)
RaceSpec == Onboarded(Users) /\ [][NextRace]_vars

\* ======================================================================
\* Properties
\* ======================================================================
Paired(u) == SessionsOf(sessions, u) # {}
Banned(u) == users[u] # NULL /\ users[u][1].is_banned
Participants(s) == {s.user1_id, s.user2_id}

\* the step of cmd_find that INSERTs the session
SessionCreatedBy(u) == pc[u] = "find_filter" /\ pc'[u] = "find_notify"
\* the ways a /stop and a text "hi" of an idle user are dispatched
StopSentBy(u) == cmd_stop(u) \/ handle_all_messages(u, SlashStop)
TextSentBy(u) == handle_session_messages(u, TextHi) \/ handle_all_messages(u, TextHi)

Count(seq, m) == Cardinality({i \in 1..Len(seq) : seq[i] = m})

\* C1: every user is referenced by at most one session row, and no two
\* session rows pair the same two users, in every reachable state (the find
\* and stop handlers of different users interleaving at their store calls).
C1_OneSessionPerUser ==
    /\ \A u \in Users : Cardinality(SessionsOf(sessions, u)) <= 1
    /\ \A s, t \in sessions : Participants(s) = Participants(t) => s = t

\* C2: when find creates a session, the requester and the selected partner
\* are both profile-complete, not banned and not referenced by any session
\* at the moment of creation.
C2_CreatedOnlyForEligible ==
    [][\A u \in Users : SessionCreatedBy(u) =>
          \A v \in {u, local'[u].partner} :
              /\ ProfileComplete(users[v])
              /\ ~Banned(v)
              /\ ~Paired(v)]_vars

\* C3: the partner find chooses is not banned, not already in a session and
\* not the requester; no session has user1_id = user2_id.
C3_PartnerEligible ==
    /\ [](\A s \in sessions : s.user1_id # s.user2_id)
    /\ [][\A u \in Users : SessionCreatedBy(u) =>
             LET p == local'[u].partner IN ~Banned(p) /\ ~Paired(p) /\ p # u]_vars

\* C4: a /stop issued by either participant of an existing session is
\* taken by cmd_stop, which removes the session and leaves both participants
\* without a session.
C4_EitherParticipantCanStop ==
    [][\A u \in Users :
          /\ (Paired(u) /\ StopSentBy(u)) => pc'[u] = "stop_delete"
          /\ stop_delete(u) =>
                \A v \in Participants(local[u].session[1]) : SessionsOf(sessions', v) = {}]_vars

\* C5: when a find succeeds, the cursors of the requester and of the
\* selected partner are both in_session and both were sent the
\* partner-found notification.
C5_BothInSessionAfterFind ==
    [][\A u \in Users : find_notify(u) =>
          LET p == local[u].partner IN
          /\ fsm_state'[u] = "in_session"
          /\ fsm_state'[p] = "in_session"
          /\ Count(sent'[u], FoundMsg(u, p)) = 1
          /\ Count(sent'[u], FoundMsg(p, u)) = 1]_vars

\* C6: when a stop has removed a session, the cursors of the user who
\* issued it and of the counterpart are both profile_complete, the issuer was
\* told the session ended and the counterpart that the partner ended it.
C6_BothProfileCompleteAfterStop ==
    [][\A u \in Users : stop_notify(u) =>
          LET p == PartnerOf(local[u].session[1], u) IN
          /\ fsm_state'[u] = "profile_complete"
          /\ fsm_state'[p] = "profile_complete"
          /\ Count(sent'[u], Msg(u, "send_message", "session_ended")) = 1
          /\ Count(sent'[u], Msg(p, "send_message", "partner_ended")) = 1]_vars

\* the handler that returned last was a stop of u that removed a session
JustStopped(u) ==
    /\ Idle(u)
    /\ Len(sent[u]) = 2
    /\ sent[u][1] = Msg(u, "send_message", "session_ended")

\* C7: a stop removes the session it returns, and a second /stop of the same
\* user right after it reports "not in an active session" and changes no
\* session and no cursor.
C7_StopIdempotent ==
    [][\A u \in Users :
          /\ stop_notify(u) => local[u].session[1] \notin sessions
          /\ (JustStopped(u) /\ StopSentBy(u)) =>
                /\ sent'[u] = <<Msg(u, "answer", "not_in_session")>>
                /\ UNCHANGED <<sessions, fsm_state>>]_vars

Onboarding == {"language", "gender", "continent", "age"}
NextCursor(c) ==
    CASE c = "language" -> "gender"
      [] c = "gender" -> "continent"
      [] c = "continent" -> "age"
      [] c = "age" -> "profile_complete"
FieldSet(row, c) ==
    CASE c = "language" -> IsSet(row.language)
      [] c = "gender" -> IsSet(row.gender)
      [] c = "continent" -> IsSet(row.continent)
      [] c = "age" -> IsSet(row.age)

\* C8: a user whose cursor is profile_complete has language, gender,
\* continent and age set, and the cursor leaves an onboarding step only to
\* the next step with that step's field persisted (or back to language, or
\* to profile_complete with the whole profile set, by /start).
C8_OnboardingNeverSkips ==
    /\ [](\A u \in Users : fsm_state[u] = "profile_complete" => ProfileComplete(users[u]))
    /\ [][\A u \in Users :
             (fsm_state[u] \in Onboarding /\ fsm_state'[u] # fsm_state[u]) =>
                 \/ fsm_state'[u] = "language"
                 \/ fsm_state'[u] = "profile_complete" /\ ProfileComplete(users'[u])
                 \/ /\ fsm_state'[u] = NextCursor(fsm_state[u])
                    /\ FieldSet(users'[u][1], fsm_state[u])]_vars

\* the decimal numeral of n, for 1 <= n <= 99
Numeral(n) ==
    IF n < 10 THEN <<Digits[n + 1]>> ELSE <<Digits[(n \div 10) + 1], Digits[(n % 10) + 1]>>
\* the texts that denote an integer in 1..99
AgeNumerals == {Numeral(n) : n \in 1..99}

\* C9: for a user whose cursor is age, an input that is not a number or is
\* an integer outside 1..99 leaves the stored row and the cursor as they
\* were; an integer in 1..99 is stored as the age and the cursor becomes
\* profile_complete.
C9_AgeValidation ==
    [][\A u \in Users : (fsm_state[u] = "age" /\ sent'[u] # <<>>) =>
          \A text \in AgeTexts : process_age(u, text) =>
              IF text \in AgeNumerals
              THEN /\ IsSet(users'[u][1].age)
                   /\ users'[u][1].age[1] \in 1..99
                   /\ Numeral(users'[u][1].age[1]) = text
                   /\ fsm_state'[u] = "profile_complete"
              ELSE /\ users'[u] = users[u]
                   /\ fsm_state'[u] = "age"]_vars

\* a user with a stored age, back at the age step, has just been refused
C9_Witness ==
    \E u \in Users :
        /\ fsm_state[u] = "age"
        /\ users[u][1].age = Some(1)
        /\ sent[u] = <<Msg(u, "answer", "age_out_of_range")>>

\* C10: a text of a paired user, whichever of the two issued find, is taken
\* by the relay, which delivers it exactly once to the partner and mirrors it
\* exactly once to the moderation group, naming sender and partner.
C10_TextRelayedOnce ==
    [][\A u \in Users :
          /\ (Paired(u) /\ TextSentBy(u)) => pc'[u] = "relay_forward"
          /\ (relay_forward(u) /\ local[u].msg = TextHi) =>
                LET p == PartnerOf(local[u].session[1], u) IN
                /\ Count(sent'[u], Msg(p, "send_message", "hi")) = 1
                /\ Count(sent'[u], ModMsg(u, p, "hi")) = 1
                /\ Len(sent'[u]) = 2]_vars

FindSentBy(u) == cmd_find(u) \/ handle_all_messages(u, SlashFind)

\* C11: after a stop has ended a session, a /find the former participant
\* sends next, with no /start in between, is taken by the matchmaker (the
\* find handler runs and goes on to look for a partner).
C11_FindAfterStopIsMatched ==
    [][\A u \in Users :
          (JustStopped(u) /\ FindSentBy(u)) => pc'[u] = "find_get_session"]_vars

\* C17: between operations, a user's cursor is in_session exactly when some
\* session row references that user.
C17_InSessionIffPaired ==
    Quiet => \A u \in Users : (fsm_state[u] = "in_session") <=> Paired(u)

\* C18: a /start of a user whose cursor is profile_complete or in_session
\* never moves the cursor to language, never sends the language prompt and
\* changes no stored profile field and no session row.
C18_StartKeepsCompletedUser ==
    [][\A u \in Users :
          (fsm_state[u] \in {"profile_complete", "in_session"} /\ cmd_start(u)) =>
             /\ fsm_state'[u] # "language"
             /\ Count(sent'[u], Msg(u, "answer", "choose_language")) = 0
             /\ users'[u] = users[u]
             /\ sessions' = sessions]_vars

\* the stop handlers that hold a session row returned by end_session
Stopping == {v \in Users : pc[v] \in {"stop_delete", "stop_notify"}}

\* C20: of the stop handlers in flight, at most one has obtained a given
\* session row from end_session (and goes on to send the two notices).
C20_OneStopObtainsSession ==
    \A u \in Stopping, v \in Stopping :
        local[u].session = local[v].session => u = v

\* C16: the partner receives an in-session message through the primitive of
\* the message's own content category (one of the thirteen), a message of
\* any other category is not delivered to the partner, and in every case
\* exactly one mirror goes to the moderation channel: the annotated text for
\* a text message, a forwarded copy otherwise.
C16_RelayedByOwnCategory ==
    [][\A u \in Users : relay_forward(u) =>
          LET m == local[u].msg
              p == PartnerOf(local[u].session[1], u)
              toPartner == {i \in 1..Len(sent'[u]) : sent'[u][i].to = p}
              toGroup == {i \in 1..Len(sent'[u]) : sent'[u][i].to = TARGET_GROUP_ID}
          IN /\ IF m.kind \in ContentTypes
                THEN /\ Cardinality(toPartner) = 1
                     /\ \A i \in toPartner : sent'[u][i].via = SendMethod[m.kind]
                ELSE toPartner = {}
             /\ Cardinality(toGroup) = 1
             /\ \A i \in toGroup :
                   IF m.kind = "text"
                   THEN sent'[u][i] = ModMsg(u, p, m.text)
                   ELSE sent'[u][i].via = "forward_message"]_vars

\* no user other than u has a row, is not banned and is in no session
NoCandidate(u) ==
    \A v \in Users \ {u} : users[v] = NULL \/ users[v][1].is_banned \/ Paired(v)

\* C12: when the find of a profile-complete, session-free user comes to
\* choose a partner and no other non-banned session-free user exists, it
\* answers "no partners", creates no session, leaves the requester's cursor
\* at profile_complete and changes no other user's state.
C12_NoPartnerAvailable ==
    [][\A u \in Users : (find_choose(u) /\ NoCandidate(u)) =>
          /\ sent'[u] = <<Msg(u, "answer", "searching"), Msg(u, "answer", "no_partners")>>
          /\ sessions' = sessions
          /\ fsm_state'[u] = "profile_complete"
          /\ UNCHANGED <<users, fsm_state, fsm_data>>]_vars

\* a find has just answered "no partners" while one other user is banned
\* and another is in a session
C12_Witness ==
    \E u \in Users :
        /\ Idle(u) /\ NoCandidate(u) /\ fsm_state[u] = "profile_complete"
        /\ sent[u] = <<Msg(u, "answer", "searching"), Msg(u, "answer", "no_partners")>>
        /\ \E v \in Users \ {u} : Banned(v)
        /\ \E w \in Users \ {u} : Paired(w)

\* C13: a store or transport call that fails inside find or stop leaves no
\* partial state: not the session row of a find whose requester's cursor
\* was not moved to in_session, and not a removed session whose stopper's
\* cursor was not reset.
C13_FailureIsAllOrNothing ==
    [][\A u \in Users : fails(u) =>
          /\ pc[u] = "find_notify" =>
                ~\E s \in sessions' :
                    /\ s.user1_id = u /\ s.user2_id = local[u].partner
                    /\ fsm_state'[u] # "in_session"
          /\ pc[u] = "stop_notify" =>
                \/ local[u].session[1] \in sessions'
                \/ fsm_state'[u] # "in_session"]_vars

\* C14: a /start of a banned user changes no cursor, no stored profile and
\* no session, and sends the ban notice only, no onboarding prompt.
C14_BannedStartChangesNothing ==
    [][\A u \in Users : (Banned(u) /\ cmd_start(u)) =>
          /\ sent'[u] = <<Msg(u, "answer", "banned")>>
          /\ UNCHANGED <<users, sessions, fsm_state, fsm_data>>]_vars

\* a banned user in a session has just sent /start
C14_Witness ==
    \E u \in Users :
        /\ Banned(u) /\ Paired(u) /\ fsm_state[u] = "in_session"
        /\ sent[u] = <<Msg(u, "answer", "banned")>>

\* is_banned, is_vip and vip_expiry of every row
Flags == [v \in Users |-> IF users[v] = NULL THEN NULL
                          ELSE <<users[v][1].is_banned, users[v][1].is_vip, users[v][1].vip_expiry>>]

\* one of the four admin commands, sent by issuer
AdminCommandBy(issuer) ==
    \/ \E target \in Users :
        \/ cmd_ban(issuer, target)
        \/ cmd_unban(issuer, target)
        \/ \E months \in Months : cmd_vip(issuer, target, months)
    \/ cmd_stats(issuer)

\* C15: /ban, /unban, /vip and /stats sent by anyone but the admin change
\* no user's banned flag, VIP flag or VIP expiry, whatever the sender's
\* cursor: a step that changes one of them is no such command.
C15_OnlyAdminChangesFlags ==
    [][(users' # users /\ Flags' # Flags) => ~\E issuer \in Users : AdminCommandBy(issuer)]_vars

\* a user in a session has just been refused an admin command while a
\* banned user and a VIP user exist
C15_Witness ==
    \E u \in Users :
        /\ sent[u] = <<Msg(u, "answer", "not_authorized")>>
        /\ fsm_state[u] = "in_session"
        /\ \E v \in Users : Banned(v)
        /\ \E v \in Users : users[v] # NULL /\ users[v][1].is_vip

\* C19: what a user in a session sends is delivered to the partner and
\* mirrored only while a session row references the two of them, also when
\* the relay interleaves with a stop.
C19_RelayedOnlyWhilePaired ==
    [][\A u \in Users : relay_forward(u) =>
          \E s \in sessions :
              Participants(s) = {u, PartnerOf(local[u].session[1], u)}]_vars
====
